---- MODULE Spec2Model ----
(***************************************************************************)
(* Job lifecycle manager and status-polling state machine of hwp-pdf:      *)
(* JobManager (the store) and the controller functions processFile and     *)
(* pollStatus of the web front end, with the remote conversion backend     *)
(* (API.uploadFile / API.checkStatus) as a nondeterministic environment.   *)
(*                                                                         *)
(* Execution is single-threaded and cooperative: every action below is the *)
(* code that runs between two suspension points (await / setTimeout).      *)
(***************************************************************************)
EXTENDS Integers, Sequences, FiniteSets, TLC

VARIABLES jobs, procs, polls, lastOp

vars == <<jobs, procs, polls, lastOp>>

---------------------------------------------------------------------------
(* Bounds of the model                                                     *)

MaxJobs == 2        \* processFile calls that pass validation (addJob calls)
MaxClock == 0       \* Date.now() reads a value in 0..MaxClock
MaxRand == 1        \* Math.random().toString(36).substr(2, 9) is one of 0..MaxRand
MaxTicks == 1       \* fake-progress increments explored per job when several jobs run

---------------------------------------------------------------------------
(* Values                                                                  *)

NULL == "null"
UNDEFINED == -1

MAX_FILE_SIZE == 50 * 1024 * 1024
AllowedExts == {"hwp", "hwpx", "odt", "docx"}

\* Math.random() * 5 lies in [0, 5): its integer part is at most MaxDelta.
MaxDelta == 4
Deltas == {0, MaxDelta}

ClockVals == 0..MaxClock
RandStrs == 0..MaxRand

\* A file name is the sequence of its dot-separated parts.
Files ==
    { [name |-> <<"report", "hwp">>,  size |-> 1024],
      [name |-> <<"report", "hwp">>,  size |-> MAX_FILE_SIZE + 1],
      [name |-> <<"archive", "zip">>, size |-> 1024] }

\* Further names and sizes, submitted when a single file is followed.
MoreFiles ==
    { [name |-> <<"PAPER", "HWPX">>,         size |-> MAX_FILE_SIZE],
      [name |-> <<"doc", "odt">>,            size |-> 55 * 1024 * 1024],
      [name |-> <<"notes", "v2", "docx">>,   size |-> 0],
      [name |-> <<"ARCHIVE", "ZIP">>,        size |-> MAX_FILE_SIZE + 1],
      [name |-> <<"hwp", "pdf">>,            size |-> 1024],
      [name |-> <<"hwp">>,                   size |-> 1024] }

NoFile == [name |-> <<>>, size |-> 0]
NoId == <<>>

ServerIdSeq == <<"J1", "J2">>
ServerIds == { ServerIdSeq[x] : x \in 1..Len(ServerIdSeq) }
UploadErrors == {"Upload failed"}

\* Responses of GET /api/status/<id> that parse as JSON with response.ok.
\* window.pywebview.api.convert_file(filePath): the results it resolves with
\* and the messages of the errors it rejects with ("" for an error without one)
ConvertResults ==
    { [success |-> TRUE,  pdf_path |-> "out.pdf", error |-> NULL],
      [success |-> FALSE, pdf_path |-> NULL,      error |-> "HWP error"],
      [success |-> FALSE, pdf_path |-> NULL,      error |-> NULL] }

ConvertErrors == {"bridge error", ""}

ConvertFallback == "conversion error (fallback text)"

\* Allow-list of the synchronous processFile
SyncAllowedExts == {"hwp", "hwpx"}

\* File paths handed to the synchronous processFile: the directories and the
\* file name, split at '\\' and '/'
SyncPaths ==
    { << <<"C:">>, <<"docs">>, <<"report", "hwp">> >>,
      << <<"home">>, <<"draft", "HWPX">> >>,
      << <<"notes", "docx">> >> }

\* Arguments of direct calls of the JobManager (NULL and UNDEFINED: omitted)
StoreFilenames == { <<"file1", "hwp">> }

StoreStatuses == {NULL, "processing"}

StoreProgresses == {UNDEFINED, 0, 50}

StoreServerIds == {NULL, "J1"}

Replies ==
    { [status |-> "completed",  error |-> NULL, result_ref |-> "R1"],
      [status |-> "failed",     error |-> "Conversion error", result_ref |-> NULL],
      [status |-> "failed",     error |-> NULL, result_ref |-> NULL],
      [status |-> "processing", error |-> NULL, result_ref |-> NULL],
      [status |-> "pending",    error |-> NULL, result_ref |-> NULL] }

---------------------------------------------------------------------------
(* Pure helpers                                                            *)

ToLower(s) ==
    CASE s = "HWP"  -> "hwp"
      [] s = "HWPX" -> "hwpx"
      [] s = "ODT"  -> "odt"
      [] s = "DOCX" -> "docx"
      [] s = "ZIP"  -> "zip"
      [] s = "PDF"  -> "pdf"
      [] OTHER      -> s

\* file.name.split('.').pop().toLowerCase()
Ext(file) == ToLower(file.name[Len(file.name)])

\* Validate as it would be without the size check
ValidateExtOnly(file) ==
    IF Ext(file) \notin AllowedExts THEN "unsupported" ELSE "ok"

\* The two validation steps of processFile
Validate(file) ==
    IF Ext(file) \notin AllowedExts THEN "unsupported"
    ELSE IF file.size > MAX_FILE_SIZE THEN "too large"
    ELSE "ok"

\* 'temp_' + Date.now() + '_' + Math.random().toString(36).substr(2, 9)
MakeId(now, r) == <<"temp", now, r>>

\* this.jobs.find(j => j.id === id): index of the first match, 0 for undefined
GetJob(js, id) ==
    IF \E i \in 1..Len(js) : js[i].id = id
    THEN CHOOSE i \in 1..Len(js) :
            /\ js[i].id = id
            /\ \A h \in 1..(i - 1) : js[h].id # id
    ELSE 0

\* AddJob as it would be with unshift in place of push
AddJobFirst(js, n, id, filename) ==
    <<[n |-> n, id |-> id, job_id |-> NULL, filename |-> filename,
       status |-> "pending", progress |-> 0, error |-> NULL,
       pdf_path |-> NULL]>> \o js

\* JobManager.addJob: the store after pushing the new record
AddJob(js, n, id, filename) ==
    Append(js, [n |-> n, id |-> id, job_id |-> NULL, filename |-> filename,
                status |-> "pending", progress |-> 0, error |-> NULL,
                pdf_path |-> NULL])

\* UpdateJobStatus as it would be if an unknown id created a record
UpdateJobStatusUpsert(js, id, status, progress, serverJobId) ==
    LET i == GetJob(js, id) IN
    IF i = 0
    THEN Append(js, [n |-> 0, id |-> id, job_id |-> serverJobId,
                     filename |-> <<>>, status |-> status, progress |-> progress,
                     error |-> NULL, pdf_path |-> NULL])
    ELSE [js EXCEPT ![i] =
            [@ EXCEPT !.status   = IF status # NULL THEN status ELSE @,
                      !.progress = IF progress # UNDEFINED THEN progress ELSE @,
                      !.job_id   = IF serverJobId # NULL THEN serverJobId ELSE @]]

\* UpdateJobStatus as it would be if it updated every record of the store
UpdateJobStatusAll(js, id, status, progress, serverJobId) ==
    [i \in 1..Len(js) |->
        [js[i] EXCEPT !.status   = IF status # NULL THEN status ELSE @,
                      !.progress = IF progress # UNDEFINED THEN progress ELSE @,
                      !.job_id   = IF serverJobId # NULL THEN serverJobId ELSE @]]

\* UpdateJobStatus as it would be with "if (progress)" as the test
UpdateJobStatusTruthy(js, id, status, progress, serverJobId) ==
    LET i == GetJob(js, id) IN
    IF i = 0 THEN js
    ELSE [js EXCEPT ![i] =
            [@ EXCEPT !.status   = IF status # NULL THEN status ELSE @,
                      !.progress = IF progress # UNDEFINED /\ progress # 0
                                   THEN progress ELSE @,
                      !.job_id   = IF serverJobId # NULL THEN serverJobId ELSE @]]

\* JobManager.updateJobStatus: the store after the call
UpdateJobStatus(js, id, status, progress, serverJobId) ==
    LET i == GetJob(js, id) IN
    IF i = 0 THEN js
    ELSE [js EXCEPT ![i] =
            [@ EXCEPT !.status   = IF status # NULL THEN status ELSE @,
                      !.progress = IF progress # UNDEFINED THEN progress ELSE @,
                      !.job_id   = IF serverJobId # NULL THEN serverJobId ELSE @]]

\* job.error = msg on the record getJob(id) returned (a reference into the store)
SetError(js, id, msg) ==
    LET i == GetJob(js, id) IN
    IF i = 0 THEN js ELSE [js EXCEPT ![i].error = msg]

\* FilterOut as it would be with the test of the filter inverted
FilterOutKeep(js, id) == SelectSeq(js, LAMBDA job : job.id = id)

\* this.jobs.filter(j => j.id !== id)
RECURSIVE FilterOut(_, _)
FilterOut(js, id) ==
    IF js = <<>> THEN <<>>
    ELSE IF Head(js).id = id THEN FilterOut(Tail(js), id)
         ELSE <<Head(js)>> \o FilterOut(Tail(js), id)

\* NewProgress as it would be with the increment subtracted
NewProgressBackwards(progress, delta) ==
    IF progress < 90 THEN progress - delta ELSE progress

\* Fake progress update of pollStatus
NewProgress(progress, delta) ==
    IF progress < 90 THEN progress + delta ELSE progress

\* Math.min(job.progress, 100): the width, in percent, updateJobElement gives
\* the progress bar
ProgressShown(job) == IF job.progress < 100 THEN job.progress ELSE 100

---------------------------------------------------------------------------
(* State                                                                   *)
(*   jobs   this.jobs of the JobManager; field n is the identity of the    *)
(*          record object (the n-th record addJob created)                 *)
(*   procs  procs[k] is the k-th processFile call that created a record:   *)
(*          the id it captured (job.id) and where the call stands          *)
(*   polls  polls[k] is the pollStatus chain processFile call k started:   *)
(*          its arguments while a call or a timer is pending, the number   *)
(*          of API.checkStatus calls awaiting an outcome and of setTimeout *)
(*          callbacks not yet run, and whether a call ended by throwing    *)
(*   lastOp the handler that ran last                                      *)

IdlePoll == [started |-> 0, localId |-> NoId, serverJobId |-> NULL,
             inflight |-> 0, timers |-> 0, threw |-> FALSE]

\* Initial state: DOMContentLoaded has run, new JobManager()
Init ==
    /\ jobs = <<>>
    /\ procs = <<>>
    /\ polls = <<>>
    /\ lastOp = [op |-> "init", k |-> 0, file |-> NoFile]

\* A pollStatus call or timer callback that is gone releases its arguments.
Settle(p) ==
    IF p.inflight = 0 /\ p.timers = 0
    THEN [p EXCEPT !.localId = NoId, !.serverJobId = NULL]
    ELSE p

---------------------------------------------------------------------------
(* processFile(file) up to its first await                                 *)

processFile(file, now, r) ==
    IF Validate(file) # "ok"
    THEN \* alert(...); return
         /\ lastOp' = [op |-> "processFile", k |-> 0, file |-> file]
         /\ UNCHANGED <<jobs, procs, polls>>
    ELSE LET n  == Len(procs) + 1
             id == MakeId(now, r)
             added == AddJob(jobs, n, id, file.name)
         IN /\ lastOp' = [op |-> "processFile", k |-> n, file |-> file]
            /\ jobs' = UpdateJobStatus(added, id, "uploading", 10, NULL)
            /\ procs' = Append(procs, [id |-> id, pc |-> "upload"])
            /\ polls' = Append(polls, IdlePoll)

\* pollStatus(localId, serverJobId) called: up to await API.checkStatus
StartPoll(p, localId, serverJobId) ==
    [p EXCEPT !.started = @ + 1, !.localId = localId,
              !.serverJobId = serverJobId, !.inflight = @ + 1]

\* API.uploadFile resolved with data.job_id = sid
UploadOk(k, sid) ==
    /\ k \in 1..Len(procs)
    /\ procs[k].pc = "upload"
    /\ lastOp' = [op |-> "uploadOk", k |-> k, file |-> NoFile]
    /\ LET id == procs[k].id
           updated == UpdateJobStatus(jobs, id, "processing", 30, sid)
       IN /\ jobs' = updated
          /\ IF GetJob(updated, id) = 0
             THEN \* updateJobElement(undefined) throws; in the catch block
                  \* failedJob is undefined and failedJob.error throws again
                  /\ procs' = [procs EXCEPT ![k].pc = "threw"]
                  /\ UNCHANGED polls
             ELSE /\ procs' = [procs EXCEPT ![k].pc = "done"]
                  /\ polls' = [polls EXCEPT ![k] = StartPoll(@, id, sid)]

\* API.uploadFile rejected with error.message = msg
UploadFail(k, msg) ==
    /\ k \in 1..Len(procs)
    /\ procs[k].pc = "upload"
    /\ lastOp' = [op |-> "uploadFail", k |-> k, file |-> NoFile]
    /\ LET id == procs[k].id
           updated == UpdateJobStatus(jobs, id, "failed", 0, NULL)
       IN IF GetJob(updated, id) = 0
          THEN /\ jobs' = updated
               /\ procs' = [procs EXCEPT ![k].pc = "threw"]
          ELSE /\ jobs' = SetError(updated, id, msg)
               /\ procs' = [procs EXCEPT ![k].pc = "done"]
    /\ UNCHANGED polls

---------------------------------------------------------------------------
(* pollStatus(localId, serverJobId)                                        *)

\* PollReply as it would be if the next tick were scheduled after every reply
PollReplyAlwaysTicks(k, data, delta) ==
    /\ k \in 1..Len(polls)
    /\ polls[k].inflight > 0
    /\ lastOp' = [op |-> "pollReply", k |-> k, file |-> NoFile,
                 reply |-> data.status]
    /\ LET id == polls[k].localId
           j  == GetJob(jobs, id)
           answered == [polls[k] EXCEPT !.inflight = @ - 1]
       IN IF j = 0
          THEN \* if (!job) return
               /\ polls' = [polls EXCEPT ![k] = Settle(answered)]
               /\ UNCHANGED jobs
          ELSE CASE data.status = "completed" ->
                      /\ jobs' = UpdateJobStatus(jobs, id, "completed", 100, NULL)
                      /\ polls' = [polls EXCEPT ![k] =
                                      [answered EXCEPT !.timers = @ + 1]]
                 [] data.status = "failed" ->
                      /\ jobs' = UpdateJobStatus(
                                    SetError(jobs, id,
                                        IF data.error # NULL THEN data.error
                                        ELSE "Failed on server"),
                                    id, "failed", 0, NULL)
                      /\ polls' = [polls EXCEPT ![k] = Settle(answered)]
                 [] OTHER ->
                      /\ jobs' = UpdateJobStatus(jobs, id, "processing",
                                    NewProgress(jobs[j].progress, delta), NULL)
                      /\ polls' = [polls EXCEPT ![k] =
                                      [answered EXCEPT !.timers = @ + 1]]
    /\ UNCHANGED procs

\* API.checkStatus resolved with data
PollReply(k, data, delta) ==
    /\ k \in 1..Len(polls)
    /\ polls[k].inflight > 0
    /\ lastOp' = [op |-> "pollReply", k |-> k, file |-> NoFile,
                 reply |-> data.status]
    /\ LET id == polls[k].localId
           j  == GetJob(jobs, id)
           answered == [polls[k] EXCEPT !.inflight = @ - 1]
       IN IF j = 0
          THEN \* if (!job) return
               /\ polls' = [polls EXCEPT ![k] = Settle(answered)]
               /\ UNCHANGED jobs
          ELSE CASE data.status = "completed" ->
                      /\ jobs' = UpdateJobStatus(jobs, id, "completed", 100, NULL)
                      /\ polls' = [polls EXCEPT ![k] = Settle(answered)]
                 [] data.status = "failed" ->
                      /\ jobs' = UpdateJobStatus(
                                    SetError(jobs, id,
                                        IF data.error # NULL THEN data.error
                                        ELSE "Failed on server"),
                                    id, "failed", 0, NULL)
                      /\ polls' = [polls EXCEPT ![k] = Settle(answered)]
                 [] OTHER ->
                      /\ jobs' = UpdateJobStatus(jobs, id, "processing",
                                    NewProgress(jobs[j].progress, delta), NULL)
                      /\ polls' = [polls EXCEPT ![k] =
                                      [answered EXCEPT !.timers = @ + 1]]
    /\ UNCHANGED procs

\* PollError as it would be if a failed status query were retried
PollErrorRetry(k) ==
    /\ k \in 1..Len(polls)
    /\ polls[k].inflight > 0
    /\ lastOp' = [op |-> "pollError", k |-> k, file |-> NoFile]
    /\ polls' = [polls EXCEPT ![k] =
                    [@ EXCEPT !.inflight = @ - 1, !.timers = @ + 1]]
    /\ UNCHANGED <<jobs, procs>>

\* API.checkStatus rejected (fetch failed or response not ok)
PollError(k) ==
    /\ k \in 1..Len(polls)
    /\ polls[k].inflight > 0
    /\ lastOp' = [op |-> "pollError", k |-> k, file |-> NoFile]
    /\ LET id == polls[k].localId
           answered == [polls[k] EXCEPT !.inflight = @ - 1]
       IN IF GetJob(jobs, id) = 0
          THEN \* job is undefined: job.error = ... throws out of the catch block
               /\ polls' = [polls EXCEPT ![k] =
                               Settle([answered EXCEPT !.threw = TRUE])]
               /\ UNCHANGED jobs
          ELSE /\ jobs' = UpdateJobStatus(
                             SetError(jobs, id, "Network error during polling"),
                             id, "failed", 0, NULL)
               /\ polls' = [polls EXCEPT ![k] = Settle(answered)]
    /\ UNCHANGED procs

\* TimerFire as it would be with setInterval in place of setTimeout
TimerFireInterval(k) ==
    /\ k \in 1..Len(polls)
    /\ polls[k].timers > 0
    /\ lastOp' = [op |-> "timerFire", k |-> k, file |-> NoFile]
    /\ polls' = [polls EXCEPT ![k] = [@ EXCEPT !.inflight = @ + 1]]
    /\ UNCHANGED <<jobs, procs>>

\* the setTimeout callback: () => pollStatus(localId, serverJobId)
TimerFire(k) ==
    /\ k \in 1..Len(polls)
    /\ polls[k].timers > 0
    /\ lastOp' = [op |-> "timerFire", k |-> k, file |-> NoFile]
    /\ polls' = [polls EXCEPT ![k] =
                    [@ EXCEPT !.timers = @ - 1, !.inflight = @ + 1]]
    /\ UNCHANGED <<jobs, procs>>

---------------------------------------------------------------------------
(* JobManager.removeJob(id)                                                *)

RemoveJob(id) ==
    /\ lastOp' = [op |-> "removeJob", k |-> 0, file |-> NoFile]
    /\ jobs' = FilterOut(jobs, id)
    /\ UNCHANGED <<procs, polls>>

---------------------------------------------------------------------------
(* The JobManager called directly, as its unit tests call it; lastOp keeps *)
(* the arguments of the call, and in k what the call returned: the record  *)
(* object (its n), 0 for null and for nothing                              *)

addJob(filename, now, r) ==
    LET n  == Len(procs) + 1
        id == MakeId(now, r)
    IN /\ lastOp' = [op |-> "addJob", k |-> n, file |-> NoFile,
                     args |-> [filename |-> filename]]
       /\ jobs' = AddJob(jobs, n, id, filename)
       /\ procs' = Append(procs, [id |-> id, pc |-> "none"])
       /\ polls' = Append(polls, IdlePoll)

updateJobStatus(id, status, progress, serverJobId) ==
    /\ lastOp' = [op |-> "updateJobStatus",
                  k |-> IF GetJob(jobs, id) = 0 THEN 0 ELSE jobs[GetJob(jobs, id)].n,
                  file |-> NoFile,
                  args |-> [id |-> id, status |-> status, progress |-> progress,
                            serverJobId |-> serverJobId]]
    /\ jobs' = UpdateJobStatus(jobs, id, status, progress, serverJobId)
    /\ UNCHANGED <<procs, polls>>

removeJob(id) ==
    /\ lastOp' = [op |-> "removeJob", k |-> 0, file |-> NoFile,
                  args |-> [id |-> id]]
    /\ jobs' = FilterOut(jobs, id)
    /\ UNCHANGED <<procs, polls>>

---------------------------------------------------------------------------
(* Synchronous processFile(filePath) of the desktop front end              *)

\* filePath.split('\\').pop().split('/').pop()
Basename(path) == path[Len(path)]

\* job.error = msg, job.pdf_path = ref on the object processFile call k holds
\* (the record addJob returned), wherever or whether it is in the store
SetOnOwn(js, k, field, value) ==
    [j \in 1..Len(js) |->
        IF js[j].n = k THEN [js[j] EXCEPT ![field] = value] ELSE js[j]]

\* processFileSync as it would be if it marked the Job uploading, as the web
\* front end does
processFileSyncUploading(path, now, r) ==
    LET file == [name |-> Basename(path), size |-> 0] IN
    IF Ext(file) \notin SyncAllowedExts
    THEN \* alert(...); return
         /\ lastOp' = [op |-> "processFileSync", k |-> 0, file |-> file]
         /\ UNCHANGED <<jobs, procs, polls>>
    ELSE LET n  == Len(procs) + 1
             id == MakeId(now, r)
             added == AddJob(jobs, n, id, file.name)
         IN /\ lastOp' = [op |-> "processFileSync", k |-> n, file |-> file]
            /\ jobs' = UpdateJobStatus(added, id, "uploading", 10, NULL)
            /\ procs' = Append(procs, [id |-> id, pc |-> "convert"])
            /\ polls' = Append(polls, IdlePoll)

\* processFile(filePath) up to its await
processFileSync(path, now, r) ==
    LET file == [name |-> Basename(path), size |-> 0] IN
    IF Ext(file) \notin SyncAllowedExts
    THEN \* alert(...); return
         /\ lastOp' = [op |-> "processFileSync", k |-> 0, file |-> file]
         /\ UNCHANGED <<jobs, procs, polls>>
    ELSE LET n  == Len(procs) + 1
             id == MakeId(now, r)
             added == AddJob(jobs, n, id, file.name)
         IN /\ lastOp' = [op |-> "processFileSync", k |-> n, file |-> file]
            /\ jobs' = UpdateJobStatus(added, id, "processing", 30, NULL)
            /\ procs' = Append(procs, [id |-> id, pc |-> "convert"])
            /\ polls' = Append(polls, IdlePoll)

\* The statements after the try block: updateJobElement(getJob(job.id))
\* throws out of processFile when the id is no longer in the store
AfterConvert(k, js) ==
    IF GetJob(js, procs[k].id) = 0
    THEN [procs EXCEPT ![k].pc = "threw"]
    ELSE [procs EXCEPT ![k].pc = "done"]

\* convert_file resolved with result
ConvertReturn(k, result) ==
    /\ k \in 1..Len(procs)
    /\ procs[k].pc = "convert"
    /\ lastOp' = [op |-> "convertReturn", k |-> k, file |-> NoFile,
                 reply |-> IF result.success THEN "success" ELSE "failure"]
    /\ LET id == procs[k].id
           updated ==
              IF result.success
              THEN UpdateJobStatus(SetOnOwn(jobs, k, "pdf_path", result.pdf_path),
                                   id, "completed", 100, NULL)
              ELSE UpdateJobStatus(SetOnOwn(jobs, k, "error", result.error),
                                   id, "failed", 0, NULL)
       IN /\ jobs' = updated
          /\ procs' = AfterConvert(k, updated)
    /\ UNCHANGED polls

\* convert_file rejected with error.message = msg
ConvertThrow(k, msg) ==
    /\ k \in 1..Len(procs)
    /\ procs[k].pc = "convert"
    /\ lastOp' = [op |-> "convertThrow", k |-> k, file |-> NoFile]
    /\ LET id == procs[k].id
           updated ==
              UpdateJobStatus(
                 SetOnOwn(jobs, k, "error", IF msg # "" THEN msg ELSE ConvertFallback),
                 id, "failed", 0, NULL)
       IN /\ jobs' = updated
          /\ procs' = AfterConvert(k, updated)
    /\ UNCHANGED polls

---------------------------------------------------------------------------
(* Specifications                                                          *)

Ids == { MakeId(now, r) : now \in ClockVals, r \in RandStrs }

Terminal == {"completed", "failed"}

\* The remote system keeps a job in progress only while the fake progress of
\* the record the loop updates is below the explored range (bound MaxTicks).
TickCap == 30 + MaxTicks * MaxDelta

WithinTicks(k, data) ==
    IF data.status \in Terminal \/ k \notin 1..Len(polls) THEN TRUE
    ELSE IF GetJob(jobs, polls[k].localId) = 0 THEN TRUE
    ELSE jobs[GetJob(jobs, polls[k].localId)].progress < TickCap

\* Local ids and server ids are only ever compared for equality, so a call
\* draws values that are in use already or the first ones that are not.
IdNo(id) == id[2] * (MaxRand + 1) + id[3]

UsedIds == { procs[k].id : k \in 1..Len(procs) }

FirstUnusedId(id) ==
    /\ id \notin UsedIds
    /\ \A other \in Ids \ UsedIds : IdNo(id) <= IdNo(other)

UsedServerIds ==
    { jobs[j].job_id : j \in 1..Len(jobs) }
        \cup { polls[k].serverJobId : k \in 1..Len(polls) }

FirstUnusedServerId(sid) ==
    \E x \in 1..Len(ServerIdSeq) :
        /\ ServerIdSeq[x] = sid
        /\ sid \notin UsedServerIds
        /\ \A y \in 1..(x - 1) : ServerIdSeq[y] \in UsedServerIds

\* Math.random() is only called when the reply is neither completed nor failed.
DeltasFor(data) == IF data.status \in Terminal THEN {0} ELSE Deltas

\* Several files, each polled for a bounded number of in-progress replies.
Next ==
    \/ \E file \in Files, now \in ClockVals, r \in RandStrs :
          /\ Len(procs) < MaxJobs
          /\ MakeId(now, r) \in UsedIds \/ FirstUnusedId(MakeId(now, r))
          /\ processFile(file, now, r)
    \/ \E k \in 1..MaxJobs, sid \in ServerIds :
          /\ sid \in UsedServerIds \/ FirstUnusedServerId(sid)
          /\ UploadOk(k, sid)
    \/ \E k \in 1..MaxJobs, msg \in UploadErrors : UploadFail(k, msg)
    \/ \E k \in 1..MaxJobs, data \in Replies : \E delta \in DeltasFor(data) :
          /\ WithinTicks(k, data)
          /\ PollReply(k, data, delta)
    \/ \E k \in 1..MaxJobs : PollError(k)
    \/ \E k \in 1..MaxJobs : TimerFire(k)
    \/ \E id \in Ids :
          /\ id \in UsedIds \/ FirstUnusedId(id)
          /\ RemoveJob(id)

Spec == Init /\ [][Next]_vars

\* Every upload returns, every timer set with setTimeout runs, and the
\* remote system, asked again and again, reports completed or failed in
\* the end.
UploadReturns(k) ==
    \/ \E sid \in ServerIds : UploadOk(k, sid)
    \/ \E msg \in UploadErrors : UploadFail(k, msg)

TerminalReply(k) ==
    \E data \in Replies : data.status \in Terminal /\ PollReply(k, data, 0)

Fairness ==
    \A k \in 1..MaxJobs :
        /\ WF_vars(UploadReturns(k))
        /\ WF_vars(TimerFire(k))
        /\ SF_vars(TerminalReply(k))

SpecLive == Init /\ [][Next]_vars /\ Fairness

\* One file, polled without a bound on the number of in-progress replies.
NextOne ==
    \/ \E file \in Files \cup MoreFiles, now \in ClockVals, r \in RandStrs :
          /\ procs = <<>> \/ Validate(file) # "ok"
          /\ processFile(file, now, r)
    \/ \E sid \in ServerIds : UploadOk(1, sid)
    \/ \E msg \in UploadErrors : UploadFail(1, msg)
    \/ \E data \in Replies : \E delta \in DeltasFor(data) : PollReply(1, data, delta)
    \/ PollError(1)
    \/ TimerFire(1)
    \/ \E id \in Ids : RemoveJob(id)

SpecOne == Init /\ [][NextOne]_vars

\* The desktop front end: several files converted synchronously.
NextSync ==
    \/ \E path \in SyncPaths, now \in ClockVals, r \in RandStrs :
          /\ Len(procs) < MaxJobs
          /\ MakeId(now, r) \in UsedIds \/ FirstUnusedId(MakeId(now, r))
          /\ processFileSync(path, now, r)
    \/ \E k \in 1..MaxJobs, result \in ConvertResults : ConvertReturn(k, result)
    \/ \E k \in 1..MaxJobs, msg \in ConvertErrors : ConvertThrow(k, msg)
    \/ \E id \in Ids :
          /\ id \in UsedIds \/ FirstUnusedId(id)
          /\ RemoveJob(id)

SpecSync == Init /\ [][NextSync]_vars

\* The JobManager alone under any sequence of addJob, updateJobStatus and
\* removeJob calls.
NextStore ==
    \/ \E filename \in StoreFilenames, now \in ClockVals, r \in RandStrs :
          /\ Len(procs) < MaxJobs
          /\ MakeId(now, r) \in UsedIds \/ FirstUnusedId(MakeId(now, r))
          /\ addJob(filename, now, r)
    \/ \E id \in Ids, status \in StoreStatuses, progress \in StoreProgresses,
            serverJobId \in StoreServerIds :
          /\ id \in UsedIds \/ FirstUnusedId(id)
          /\ updateJobStatus(id, status, progress, serverJobId)
    \/ \E id \in Ids :
          /\ id \in UsedIds \/ FirstUnusedId(id)
          /\ removeJob(id)

SpecStore == Init /\ [][NextStore]_vars

---------------------------------------------------------------------------
(* Properties                                                              *)

\* Position in this.jobs of the record object n, 0 when it was removed
JobOf(js, n) ==
    IF \E j \in 1..Len(js) : js[j].n = n
    THEN CHOOSE j \in 1..Len(js) : js[j].n = n
    ELSE 0

Rank(status) ==
    CASE status = "pending"    -> 0
      [] status = "uploading"  -> 1
      [] status = "processing" -> 2
      [] OTHER                 -> 3

\* C1: in every step, the status of every Job that stays in the store moves
\* forward (or stays) along pending -> uploading -> processing ->
\* {completed | failed}, and a completed or failed Job keeps its status.
C1_StatusMonotone ==
    [][\A n \in 1..Len(procs) :
          (JobOf(jobs, n) # 0 /\ JobOf(jobs', n) # 0) =>
             LET old == jobs[JobOf(jobs, n)].status
                 new == jobs'[JobOf(jobs', n)].status
             IN /\ Rank(new) >= Rank(old)
                /\ old \in Terminal => new = old]_vars

\* C2: the localIds returned by addJob during the session are pairwise
\* distinct, removed jobs included.
C2_LocalIdsDistinct ==
    \A a, b \in 1..Len(procs) : a # b => procs[a].id # procs[b].id

\* C3: the pollStatus chain of a Job never has more than one status query
\* awaiting its outcome, never has a query awaiting and a next tick scheduled
\* at the same time, and is started at most once.
C3_OneQueryInFlight ==
    \A k \in 1..Len(polls) :
        /\ polls[k].started <= 1
        /\ polls[k].inflight + polls[k].timers <= 1
        /\ polls[k].started = 0 => polls[k].inflight + polls[k].timers = 0

\* C3 witness: a later tick of a loop has issued its status query while
\* another Job's loop is waiting for its own.
C3_Witness ==
    /\ lastOp.op = "timerFire"
    /\ polls[lastOp.k].inflight = 1
    /\ \E k \in 1..Len(polls) : k # lastOp.k /\ polls[k].inflight = 1

\* C4: once a Job in the store is completed or failed, no step issues a
\* status query for it or schedules a tick of its poll loop.
C4_TerminalStopsPolling ==
    [][\A k \in 1..Len(polls) :
          (JobOf(jobs, k) # 0 /\ jobs[JobOf(jobs, k)].status \in Terminal) =>
             /\ polls'[k].inflight <= polls[k].inflight
             /\ polls'[k].timers <= polls[k].timers]_vars

\* C5: a Job in processing has a progress strictly below 90.
C5_SyntheticBelow90 ==
    \A j \in 1..Len(jobs) :
        jobs[j].status = "processing" => jobs[j].progress < 90

\* C6: when the outcome of a status query (reply or transport error) arrives
\* for a localId that is no longer in the store, the tick leaves the store as
\* it is, raises no error and ends the loop.
C6_RemovedTickIsSilent ==
    [][(/\ lastOp'.op \in {"pollReply", "pollError"}
        /\ GetJob(jobs, polls[lastOp'.k].localId) = 0) =>
          /\ jobs' = jobs
          /\ ~polls'[lastOp'.k].threw
          /\ polls'[lastOp'.k].inflight + polls'[lastOp'.k].timers = 0]_vars

\* C7 as stated: after a transport error of a status query whose Job (the
\* record stored under the loop's localId) is in the store, that Job is failed
\* with error "network error during polling" and the loop has nothing pending.
C7_PollFailureAsStated ==
    [][(/\ lastOp'.op = "pollError"
        /\ GetJob(jobs, procs[lastOp'.k].id) # 0) =>
          LET j == GetJob(jobs', procs[lastOp'.k].id) IN
          /\ j # 0
          /\ jobs'[j].status = "failed"
          /\ jobs'[j].error = "network error during polling"
          /\ polls'[lastOp'.k].inflight + polls'[lastOp'.k].timers = 0]_vars

\* C7 amended: the same with the message the code sets,
\* "Network error during polling".
C7_PollFailure ==
    [][(/\ lastOp'.op = "pollError"
        /\ GetJob(jobs, procs[lastOp'.k].id) # 0) =>
          LET j == GetJob(jobs', procs[lastOp'.k].id) IN
          /\ j # 0
          /\ jobs'[j].status = "failed"
          /\ jobs'[j].error = "Network error during polling"
          /\ polls'[lastOp'.k].inflight + polls'[lastOp'.k].timers = 0]_vars

\* C7 witness: a status query has just failed and the Job is marked failed
\* while another Job is still being polled.
C7_Witness ==
    /\ lastOp.op = "pollError"
    /\ GetJob(jobs, procs[lastOp.k].id) # 0
    /\ jobs[GetJob(jobs, procs[lastOp.k].id)].error = "Network error during polling"
    /\ \E k \in 1..Len(polls) : polls[k].inflight + polls[k].timers = 1

\* C8: no processFile call and no pollStatus call ends with an exception
\* (a rejected promise).
C8_NoErrorEscapes ==
    /\ \A k \in 1..Len(procs) : procs[k].pc # "threw"
    /\ \A k \in 1..Len(polls) : ~polls[k].threw

\* C9: a processFile call with a file whose extension is not in the allow-list
\* or whose size exceeds MAX_FILE_SIZE leaves the store as it is, issues no
\* upload and starts no poll loop.
C9_RejectedFileCreatesNoJob ==
    [][(/\ lastOp'.op = "processFile"
        /\ \/ Ext(lastOp'.file) \notin AllowedExts
           \/ lastOp'.file.size > MAX_FILE_SIZE) =>
          /\ jobs' = jobs
          /\ procs' = procs
          /\ polls' = polls]_vars

\* C9 witness: an oversized file with an allowed extension has just been
\* rejected while the store holds a Job.
C9_Witness ==
    /\ lastOp.op = "processFile"
    /\ Ext(lastOp.file) \in AllowedExts
    /\ lastOp.file.size > MAX_FILE_SIZE
    /\ Len(jobs) = 1
    /\ Len(procs) = 1

\* C10: when the upload of a Job that is in the store succeeds, the Job was
\* uploading with progress 10 and becomes processing with progress 30 and the
\* server's job id, and its poll loop is started exactly once.
C10_UploadAccepted ==
    [][(/\ lastOp'.op = "uploadOk"
        /\ JobOf(jobs, lastOp'.k) # 0) =>
          LET old == jobs[JobOf(jobs, lastOp'.k)]
              new == jobs'[JobOf(jobs', lastOp'.k)]
          IN /\ old.status = "uploading"
             /\ old.progress = 10
             /\ new.status = "processing"
             /\ new.progress = 30
             /\ new.job_id \in ServerIds
             /\ new.job_id = polls'[lastOp'.k].serverJobId
             /\ polls'[lastOp'.k].started = 1
             /\ polls'[lastOp'.k].inflight = 1]_vars

\* C11: when the upload of a Job that is in the store fails, the Job becomes
\* failed with progress 0 and the failure message as its error, the upload is
\* not issued again and no poll loop is ever started for that Job.
C11_UploadFailure ==
    [][/\ (/\ lastOp'.op = "uploadFail"
           /\ JobOf(jobs, lastOp'.k) # 0) =>
             LET new == jobs'[JobOf(jobs', lastOp'.k)]
             IN /\ JobOf(jobs', lastOp'.k) # 0
                /\ new.status = "failed"
                /\ new.progress = 0
                /\ new.error \in UploadErrors
                /\ procs'[lastOp'.k].pc # "upload"
                /\ polls'[lastOp'.k].started = 0
       /\ \A k \in 1..Len(procs) :
             (procs[k].pc # "upload" /\ polls[k].started = 0) =>
                /\ procs'[k].pc # "upload"
                /\ polls'[k].started = 0]_vars

\* The result reference a Job holds: job.pdf_path, which only the
\* synchronous processFile assigns; no statement of the web processFile or of
\* pollStatus stores anything of a reply on the job.
ResultRef(job) == job.pdf_path

\* C12 as stated: after a reply "completed" for a Job in the store (the record
\* stored under the loop's localId) the Job is completed with progress 100
\* and holds the result reference of the reply, and the loop has nothing
\* pending.
C12_CompletedAsStated ==
    [][(/\ lastOp'.op = "pollReply"
        /\ lastOp'.reply = "completed"
        /\ GetJob(jobs, procs[lastOp'.k].id) # 0) =>
          LET j == GetJob(jobs', procs[lastOp'.k].id) IN
          /\ j # 0
          /\ jobs'[j].status = "completed"
          /\ jobs'[j].progress = 100
          /\ ResultRef(jobs'[j]) \in
                { r.result_ref : r \in { x \in Replies : x.status = "completed" } }
          /\ polls'[lastOp'.k].inflight + polls'[lastOp'.k].timers = 0]_vars

\* C12 amended: after a reply "completed" for a Job in the store the Job is
\* completed with progress 100, nothing of the reply is stored on it (no
\* result reference, the server's job id as it was) and the loop has nothing
\* pending.
C12_Completed ==
    [][(/\ lastOp'.op = "pollReply"
        /\ lastOp'.reply = "completed"
        /\ GetJob(jobs, procs[lastOp'.k].id) # 0) =>
          LET j == GetJob(jobs', procs[lastOp'.k].id) IN
          /\ j # 0
          /\ j = GetJob(jobs, procs[lastOp'.k].id)
          /\ jobs'[j].status = "completed"
          /\ jobs'[j].progress = 100
          /\ ResultRef(jobs'[j]) = NULL
          /\ jobs'[j].job_id = jobs[j].job_id
          /\ polls'[lastOp'.k].inflight + polls'[lastOp'.k].timers = 0]_vars

\* C12 witness: a reply "completed" has just ended the loop of a Job that was
\* processing, while another Job is still being polled.
C12_Witness ==
    /\ lastOp.op = "pollReply"
    /\ lastOp.reply = "completed"
    /\ JobOf(jobs, lastOp.k) # 0
    /\ jobs[JobOf(jobs, lastOp.k)].status = "completed"
    /\ jobs[JobOf(jobs, lastOp.k)].progress = 100
    /\ polls[lastOp.k].started = 1
    /\ \E k \in 1..Len(polls) : polls[k].inflight + polls[k].timers = 1

\* C13: a Job in the store has an error message exactly when its status is
\* failed.
C13_ErrorIffFailed ==
    \A j \in 1..Len(jobs) :
        (jobs[j].error # NULL) <=> (jobs[j].status = "failed")

\* C14: updateJobStatus called with a localId that no record of the store
\* has returns null and leaves the store, records and order, as it was.
C14_UpdateAbsent ==
    [][(/\ lastOp'.op = "updateJobStatus"
        /\ \A j \in 1..Len(jobs) : jobs[j].id # lastOp'.args.id) =>
          /\ lastOp'.k = 0
          /\ jobs' = jobs]_vars

\* C14 witness: updateJobStatus has just been called with new values for all
\* three fields and the id of a Job that was removed, while the store holds
\* another Job.
C14_Witness ==
    /\ lastOp.op = "updateJobStatus"
    /\ lastOp.k = 0
    /\ lastOp.args.id \in UsedIds
    /\ lastOp.args.status # NULL
    /\ lastOp.args.progress # UNDEFINED
    /\ lastOp.args.serverJobId # NULL
    /\ Len(jobs) = 1

\* C15: addJob returns a new record with status pending, progress 0 and no
\* server job id, pushes exactly that record at the end and leaves the records
\* already in the store as they were; and after every addJob, updateJobStatus
\* and removeJob call the store lists its records in creation order.
C15_AddJobAppends ==
    [][/\ lastOp'.op = "addJob" =>
             /\ Len(jobs') = Len(jobs) + 1
             /\ \A j \in 1..Len(jobs) : jobs'[j] = jobs[j]
             /\ jobs'[Len(jobs')].n = lastOp'.k
             /\ \A j \in 1..Len(jobs) : jobs[j].n # lastOp'.k
             /\ jobs'[Len(jobs')].filename = lastOp'.args.filename
             /\ jobs'[Len(jobs')].status = "pending"
             /\ jobs'[Len(jobs')].progress = 0
             /\ jobs'[Len(jobs')].job_id = NULL
       /\ \A i, j \in 1..Len(jobs') : i < j => jobs'[i].n < jobs'[j].n]_vars

\* C15 witness: addJob has just pushed a record behind one that was updated
\* since its creation.
C15_Witness ==
    /\ lastOp.op = "addJob"
    /\ Len(jobs) = 2
    /\ jobs[2].n = lastOp.k
    /\ jobs[1].status = "processing"
    /\ jobs[1].progress = 50
    /\ jobs[1].job_id # NULL

\* C16: removeJob(id) deletes the records whose localId is id and no other
\* record, keeping the others in their order; called with an id that no record
\* has (the same id a second time included) it leaves the store as it was.
C16_RemoveExactly ==
    [][lastOp'.op = "removeJob" =>
          LET kept == { j \in 1..Len(jobs) : jobs[j].id # lastOp'.args.id } IN
          /\ Len(jobs') = Cardinality(kept)
          /\ \A j \in 1..Len(jobs') : jobs'[j].id # lastOp'.args.id
          /\ \A j \in kept :
                jobs'[Cardinality({ h \in kept : h <= j })] = jobs[j]
          /\ kept = 1..Len(jobs) => jobs' = jobs]_vars

\* C16 witness: removeJob has just been called with the id of a Job that is
\* not in the store any more, and the store holds another Job.
C16_Witness ==
    /\ lastOp.op = "removeJob"
    /\ Len(procs) = 2
    /\ lastOp.args.id = procs[1].id
    /\ Len(jobs) = 1
    /\ jobs[1].n = 2
    /\ jobs[1].id # procs[1].id

\* C17: updateJobStatus called with a localId in the store overwrites, on the
\* first record with that id, the fields among status, progress and server job
\* id that the call provides, leaves its other fields and every other record
\* as they were, and returns that record.
C17_UpdateOnlyProvided ==
    [][(/\ lastOp'.op = "updateJobStatus"
        /\ \E j \in 1..Len(jobs) : jobs[j].id = lastOp'.args.id) =>
          LET a == lastOp'.args
              i == CHOOSE j \in 1..Len(jobs) :
                      /\ jobs[j].id = a.id
                      /\ \A h \in 1..(j - 1) : jobs[h].id # a.id
          IN /\ Len(jobs') = Len(jobs)
             /\ \A j \in 1..Len(jobs) : j # i => jobs'[j] = jobs[j]
             /\ lastOp'.k = jobs[i].n
             /\ jobs'[i].status =
                   IF a.status # NULL THEN a.status ELSE jobs[i].status
             /\ jobs'[i].progress =
                   IF a.progress # UNDEFINED THEN a.progress ELSE jobs[i].progress
             /\ jobs'[i].job_id =
                   IF a.serverJobId # NULL THEN a.serverJobId ELSE jobs[i].job_id
             /\ jobs'[i].n = jobs[i].n
             /\ jobs'[i].id = jobs[i].id
             /\ jobs'[i].filename = jobs[i].filename
             /\ jobs'[i].error = jobs[i].error
             /\ jobs'[i].pdf_path = jobs[i].pdf_path]_vars

\* C17 witness: updateJobStatus has just set the progress of a Job back to 0
\* and left its status and its server job id, both set by an earlier call, as
\* they were, while the store holds another Job.
C17_Witness ==
    /\ lastOp.op = "updateJobStatus"
    /\ lastOp.k = 1
    /\ lastOp.args.status = NULL
    /\ lastOp.args.progress = 0
    /\ lastOp.args.serverJobId = NULL
    /\ Len(jobs) = 2
    /\ jobs[1].status = "processing"
    /\ jobs[1].progress = 0
    /\ jobs[1].job_id = "J1"
    /\ jobs[2].progress = 50

\* No two records of the store hold the same server job id
RemoteIdsDistinct(js) ==
    \A i, j \in 1..Len(js) :
        (i # j /\ js[i].job_id # NULL) => js[i].job_id # js[j].job_id

\* C18 as stated: no two Jobs in the store hold the same non-null server job
\* id, whatever job ids the uploads return.
C18_RemoteIdsDistinct == RemoteIdsDistinct(jobs)

\* C18 amended: a step leads from a store without a shared server job id to
\* one with a shared id only when it is an upload that resolves with a job id
\* that a Job in the store already holds.
C18_RemoteIdsDistinctUnlessReturnedTwice ==
    [][(/\ RemoteIdsDistinct(jobs)
        /\ ~RemoteIdsDistinct(jobs')) =>
          /\ lastOp'.op = "uploadOk"
          /\ polls'[lastOp'.k].serverJobId # NULL
          /\ \E j \in 1..Len(jobs) :
                jobs[j].job_id = polls'[lastOp'.k].serverJobId]_vars

\* C18 witness: an upload has just resolved with a job id no Job held, and the
\* store holds two Jobs with different server job ids.
C18_Witness ==
    /\ lastOp.op = "uploadOk"
    /\ Len(jobs) = 2
    /\ jobs[1].job_id # NULL
    /\ jobs[2].job_id # NULL
    /\ jobs[1].job_id # jobs[2].job_id
    /\ jobs[JobOf(jobs, lastOp.k)].job_id = polls[lastOp.k].serverJobId

\* C19: the progress updateJobElement shows for a Job in the store is within
\* [0, 100], however many fake increments the Job has had.
C19_ShownProgressInRange ==
    \A j \in 1..Len(jobs) :
        /\ 0 <= ProgressShown(jobs[j])
        /\ ProgressShown(jobs[j]) <= 100

\* C19 witness: a reply has just left a Job processing after so many fake
\* increments that none is added any more.
C19_Witness ==
    /\ lastOp.op = "pollReply"
    /\ Len(jobs) = 1
    /\ jobs[1].status = "processing"
    /\ jobs[1].progress >= 90
    /\ ProgressShown(jobs[1]) = jobs[1].progress

\* C20: a step in which a Job fails (its upload fails, a reply reports failed,
\* or its status query fails) leaves the record of every other Job in the
\* store and every other Job's poll loop as they were.
C20_FailureIsolated ==
    [][(\/ lastOp'.op \in {"uploadFail", "pollError"}
        \/ lastOp'.op = "pollReply" /\ lastOp'.reply = "failed") =>
          \A n \in 1..Len(procs) : n # lastOp'.k =>
             /\ polls'[n] = polls[n]
             /\ JobOf(jobs, n) # 0 =>
                   /\ JobOf(jobs', n) # 0
                   /\ jobs'[JobOf(jobs', n)] = jobs[JobOf(jobs, n)]]_vars

C22_NoQueryAfterRemoval ==
    [][\A k \in 1..Len(polls) :
          polls'[k].inflight > polls[k].inflight => JobOf(jobs, k) # 0]_vars

\* C23: a Job that is processing has a server job id, and a status query that
\* awaits its outcome was issued with the server job id recorded on the Job
\* of its loop.
C23_ProcessingHasRemoteId ==
    /\ \A j \in 1..Len(jobs) :
          jobs[j].status = "processing" => jobs[j].job_id # NULL
    /\ \A k \in 1..Len(polls) :
          (polls[k].inflight > 0 /\ JobOf(jobs, k) # 0) =>
             jobs[JobOf(jobs, k)].job_id = polls[k].serverJobId

\* C24: every Job whose upload was accepted is, from then on, eventually
\* removed from the store or completed or failed with nothing of its poll
\* loop pending.
C24_EventuallyTerminal ==
    \A k \in 1..MaxJobs :
        [](((k <= Len(procs)) /\ (polls[k].started = 1)) =>
              <>(\/ JobOf(jobs, k) = 0
                 \/ /\ jobs[JobOf(jobs, k)].status \in Terminal
                    /\ polls[k].inflight + polls[k].timers = 0))

====
